---- MODULE Spec2Model ----
(***************************************************************************)
(* threadpool_fractal: the worker pool (src/lib/threadpool.rs), the three  *)
(* multithreaded render strategies (src/lib/lib.rs) and the pure colour    *)
(* and escape-time functions they call (src/lib/colors.rs,                  *)
(* src/lib/mandelbrot.rs).                                                  *)
(*                                                                         *)
(* Threads are modelled one statement at a time.  std::sync::mpsc::channel *)
(* is an unbounded FIFO queue (a sequence), std::sync::Mutex a variable    *)
(* holding its owner, JoinHandle::join a step enabled once the thread has  *)
(* exited.                                                                 *)
(***************************************************************************)
EXTENDS Integers, Sequences, FiniteSets, TLC

\* ------------------------------------------------------------------ bounds
\* Largest pool size / thread count drawn as input.
MaxWorkers == 2
\* Largest number of jobs a client of the pool submits before dropping it.
MaxJobs == 3

\* Largest image drawn as input, in pixels (width * height).
MaxPixels == 4
\* The iteration limit the renders are run with.
RenderLimit == 3
\* Largest image rendered when the iteration limit is an input as well.
MaxLimitPixels == 2

\* Largest width and height of the images handed to the two divisions alone.
MaxSide == 3
\* Largest thread count handed to divide_image_into_segments alone.
MaxThreads == 5

\* Largest iteration limit iterations_to_color is called with on its own.
MaxLimit == 12
\* Longest palette iterations_to_color is called with on its own.
MaxPalette == 6
\* Longest palette built before it has ever been handed to iterations_to_color.
MaxVecLen == 2

\* escape_time on its own: points c with integer parts of at most this size
MaxC == 2
\* and limits up to this one.
MaxEscapeLimit == 4

\* pixel_to_point on its own: images of up to MaxMapSide x MaxMapSide pixels
MaxMapSide == 3
\* over viewports of up to MaxScale units of the plane per pixel.
MaxScale == 2

\* blend_color_channel on its own: channels at most this far from 0 or from 255.
MaxChannelOffset == 3
\* Degrees have at most this many binary places.
MaxDegreeBits == 3

Workers == 1..MaxWorkers

\* Owner of the buffer mutex when the rendering (main) thread holds it.
MainThread == MaxWorkers + 1

\* ------------------------------------------------------------------- state
VARIABLES
    mode,          \* which program drives the pool: "client" or a render strategy
    pcMain,        \* position of the thread that owns the pool
    sizeArg,       \* the argument ThreadPool::new was called with (-1: not called)
    poolSize,      \* workers.len() of the constructed pool (0: no pool value)
    channel,       \* TRUE once mpsc::channel() has been created
    queue,         \* messages in the channel, oldest first
    receiverLock,  \* owner of Mutex<Receiver>: 0 (free) or a worker id
    wpc,           \* per thread: position in the worker loop
    wmsg,          \* per thread: the message bound by `let message = ...`
    termSent,      \* iterations completed by drop's first loop
    joinIdx,       \* iterations completed by drop's second loop
    sent,          \* every message ever sent, in send order (history)
    dequeued,      \* send indices of the messages received, in receive order
    runCount,      \* per job: how many times its body ran to completion
    termRecv,      \* per worker: Terminate messages it received
    recvAfterTerm, \* per worker: messages it received after a Terminate
    counter,       \* the shared number `i` the example job foo increments
    width,         \* image width (input)
    height,        \* image height (input)
    threads,       \* thread count (input)
    limitArg,      \* the iteration limit a render is called with (input)
    pixels,        \* the shared RgbImage behind Arc<Mutex<..>>: <<x, y>> -> colour
    bufLock,       \* owner of the image mutex: 0 (free), a worker id or MainThread
    units,         \* the work units (segments, rows or pixels), in creation order
    spawnIdx,      \* segments strategy: threads spawned so far
    wunit,         \* per thread: the unit its closure owns, with computed colours
    wpos,          \* per thread: index of the next pixel_data to write back
    writes,        \* per pixel: how many times it has been written (history)
    saved,         \* the image as read by main's save (<<>>: not saved)
    argIterations, \* iterations_to_color: its argument `iterations` (input)
    argLimit,      \* iterations_to_color: its argument `limit` (input)
    argPalette,    \* iterations_to_color: its argument `palette` (input)
    subrange,      \* iterations_to_color: chosen_subrange when the call ended
    color,         \* iterations_to_color: what the call returned (<<>>: not called)
    argA,          \* blend_color_channel: its argument `a_channel` (input)
    argB,          \* blend_color_channel: its argument `b_channel` (input)
    argDegree,     \* blend_color_channel: its argument `degree` (input)
    blended,       \* blend_color_channel(a, b, degree) (-1: not called)
    blendedBack,   \* blend_color_channel(b, a, 1.0 - degree) (-1: not called)
    argC,          \* escape_time: its argument `c` (input)
    argEscapeLimit, \* escape_time: its argument `limit` (input)
    escaped,       \* escape_time: the count it returned (-1: not called)
    argPixel,      \* pixel_to_point: its argument `pixel_coords` (input)
    argOther,      \* pixel_to_point: the pixel of a second call (input)
    argBounds,     \* pixel_to_point: <<width, height>> (input)
    argUpperLeft,  \* pixel_to_point: complex_upper_left_bound (input)
    argLowerRight, \* pixel_to_point: complex_lower_right_bound (input)
    point,         \* pixel_to_point(argPixel, ..) (<<>>: not called)
    pointOther     \* pixel_to_point(argOther, ..) (<<>>: not called)

poolVars == <<sizeArg, poolSize, channel, queue, receiverLock, wpc, wmsg, termSent,
              joinIdx, sent, dequeued, runCount, termRecv,
              recvAfterTerm, counter>>

renderVars == <<width, height, threads, limitArg, pixels, bufLock, units, spawnIdx, wunit,
                wpos, writes, saved>>

colorVars == <<argIterations, argLimit, argPalette, subrange, color>>

blendVars == <<argA, argB, argDegree, blended, blendedBack>>

\* The arguments and results of the functions called on their own.
escapeVars == <<argC, argEscapeLimit, escaped>>

mapperVars == <<argPixel, argOther, argBounds, argUpperLeft, argLowerRight, point,
                pointOther>>

pureVars == <<colorVars, blendVars, escapeVars, mapperVars>>

vars == <<mode, pcMain, poolVars, renderVars, pureVars>>

\* ------------------------------------------------------------------ colors
\* Rgb<u8> is a triple <<r, g, b>>.
BLACK == <<0, 0, 0>>

WHITE == <<255, 255, 255>>

RED == <<255, 0, 0>>

ORANGE == <<255, 127, 0>>

YELLOW == <<255, 255, 0>>

GREEN == <<0, 255, 0>>

BLUE == <<0, 0, 255>>

grayscale_theme == <<BLACK, WHITE>>

fire_theme == <<RED, ORANGE, YELLOW>>

\* What a call returns when it panics instead (a failed assert!, a remainder by
\* zero): no colour has a negative channel.
Panic == <<-1, -1, -1>>

\* An f64 quotient n / d of two small non-negative integers, kept exact as a
\* fraction; d = 0 is the result of 0.0 / 0.0 (NaN).
Frac(n, d) == [n |-> n, d |-> d]

IsNaN(f) == f.d = 0

\* A conversion to u8 that drops the fraction instead of rounding it.
Truncate(n, d) == n \div d

\* f64::round of the non-negative quotient n / d: half away from zero.
Round(n, d) == (2 * n + d) \div (2 * d)

Abs(i) == IF i < 0 THEN -i ELSE i

\* Translates a_channel toward b_channel by `degree`.  A NaN degree equals
\* neither 0.0 nor 1.0, and `NaN as u8` is 0.
blend_color_channel(a_channel, b_channel, degree) ==
    IF ~IsNaN(degree) /\ degree.n = 0 THEN a_channel
    ELSE IF ~IsNaN(degree) /\ degree.n = degree.d THEN b_channel
    ELSE IF a_channel = b_channel THEN a_channel
    ELSE LET delta == Abs(a_channel - b_channel)
             blended_delta == IF IsNaN(degree) THEN 0
                              ELSE Round(delta * degree.n, degree.d)
         IN  IF a_channel <= b_channel
             THEN a_channel + blended_delta
             ELSE a_channel - blended_delta

blend_colors(a, b, degree) ==
    << blend_color_channel(a[1], b[1], degree),
       blend_color_channel(a[2], b[2], degree),
       blend_color_channel(a[3], b[3], degree) >>

\* A loop that stops only once the cover is negative.
RECURSIVE choose_subrange_strict(_, _, _, _)
choose_subrange_strict(s, range_cover, subrange_width, subranges) ==
    LET cover == range_cover - subrange_width
    IN  IF cover < 0 \/ s = subranges - 1 THEN s
        ELSE choose_subrange_strict(s + 1, cover, subrange_width, subranges)

\* A loop whose forced stop comes one subrange late.
RECURSIVE choose_subrange_late(_, _, _, _)
choose_subrange_late(s, range_cover, subrange_width, subranges) ==
    LET cover == range_cover - subrange_width
    IN  IF cover <= 0 \/ s = subranges THEN s
        ELSE choose_subrange_late(s + 1, cover, subrange_width, subranges)

\* The loop `for s in 0..=subranges` that finds the subrange, entered with
\* range_cover = iterations.
RECURSIVE choose_subrange(_, _, _, _)
choose_subrange(s, range_cover, subrange_width, subranges) ==
    LET cover == range_cover - subrange_width
    IN  IF cover <= 0 \/ s = subranges - 1 THEN s
        ELSE IF s = subranges THEN 0
        ELSE choose_subrange(s + 1, cover, subrange_width, subranges)

\* `iterations % subrange_width` is evaluated with a zero divisor: a panic.
remainder_by_zero(iterations, subrange_width) ==
    iterations > subrange_width /\ subrange_width = 0

\* A coverage without the bump to 100% at exact multiples of the width.
subrange_cover_unbumped(iterations, subrange_width) ==
    IF iterations > subrange_width
    THEN Frac(iterations % subrange_width, subrange_width)
    ELSE Frac(iterations, subrange_width)

\* Subrange coverage of `iterations` (where the remainder does not panic).
subrange_cover(iterations, subrange_width) ==
    IF iterations > subrange_width
    THEN LET mapped_iterations == iterations % subrange_width
         IN  IF mapped_iterations = 0 THEN Frac(1, 1)
             ELSE Frac(mapped_iterations, subrange_width)
    ELSE Frac(iterations, subrange_width)

\* A sentinel test that lets `iterations = limit` through.
is_past_limit(iterations, limit) == iterations > limit

\* `if iterations == limit`: the count is the did-not-escape sentinel.
is_limit(iterations, limit) == iterations = limit

\* let subrange_width: u32 = (limit as f64 / subranges as f64).round() as u32;
\* With no subrange the quotient is infinite (NaN for limit 0), and the cast of
\* an infinite f64 saturates (that of NaN is 0); the saturated width is kept at
\* 2^31 - 1 here, which like u32::MAX is above every iteration count.
subrange_width_of(limit, palette) ==
    IF Len(palette) - 1 = 0
    THEN (IF limit = 0 THEN 0 ELSE 2147483647)
    ELSE Round(limit, Len(palette) - 1)

\* The subrange picked for `iterations`: 0 when there is only one.
chosen_subrange(iterations, limit, palette) ==
    LET subranges == Len(palette) - 1
    IN  IF subranges > 1
        THEN choose_subrange(0, iterations, subrange_width_of(limit, palette),
                             subranges)
        ELSE 0

\* `&palette[i]` panics unless i < palette.len() (sequences here start at 1).
index_in_bounds(palette, i) == i + 1 \in DOMAIN palette

\* An assertion that only asks for a palette that is not empty.
palette_len_positive(palette) == Len(palette) > 0

\* assert!(palette.len() > 1); // We need at least 2 colors
palette_len_asserted(palette) == Len(palette) > 1

\* Returns the colour in `palette` that maps onto `iterations`.
iterations_to_color(iterations, limit, palette) ==
    IF ~palette_len_asserted(palette) THEN Panic
    ELSE IF is_limit(iterations, limit) THEN BLACK
    ELSE LET subrange_width == subrange_width_of(limit, palette)
             start_color == chosen_subrange(iterations, limit, palette)
             next_color == start_color + 1
         IN  IF remainder_by_zero(iterations, subrange_width) THEN Panic
             ELSE IF ~index_in_bounds(palette, next_color) THEN Panic
             ELSE blend_colors(palette[start_color + 1], palette[next_color + 1],
                               subrange_cover(iterations, subrange_width))

\* -------------------------------------------------------------- mandelbrot
\* Complex<f64> is a pair <<re, im>>; the viewports used put every pixel on an
\* integer point, where f64 arithmetic is exact.
norm_sqr(z) == z[1] * z[1] + z[2] * z[2]

\* z * z + c
square_add(z, c) == << z[1] * z[1] - z[2] * z[2] + c[1], 2 * z[1] * z[2] + c[2] >>

None == [some |-> FALSE, i |-> 0]

Some(i) == [some |-> TRUE, i |-> i]

\* A loop that takes the circle of radius 2 itself for escaped.
RECURSIVE escape_loop_inclusive(_, _, _, _)
escape_loop_inclusive(z, c, i, limit) ==
    IF i >= limit THEN None
    ELSE LET z1 == square_add(z, c)
         IN  IF norm_sqr(z1) >= 4 THEN Some(i)
             ELSE escape_loop_inclusive(z1, c, i + 1, limit)

\* The loop `for i in 0..limit` of escape_time.
RECURSIVE escape_loop(_, _, _, _)
escape_loop(z, c, i, limit) ==
    IF i >= limit THEN None
    ELSE LET z1 == square_add(z, c)
         IN  IF norm_sqr(z1) > 4 THEN Some(i)
             ELSE escape_loop(z1, c, i + 1, limit)

\* Some(i) if c left the radius-2 circle at iteration i, None if it never did
\* within `limit` iterations.
escape_time(c, limit) == escape_loop(<<0, 0>>, c, 0, limit)

\* The iteration count the renders pass on: `limit` itself when c never escaped.
escape_iterations(c, limit) ==
    LET t == escape_time(c, limit)
    IN  IF t.some THEN t.i ELSE limit

\* A mapper that takes the real part from pixel_y and the imaginary one from
\* pixel_x.
pixel_to_point_transposed(pixel_coords, w, h, upper_left, lower_right) ==
    LET real_scale == lower_right[1] - upper_left[1]
        imag_scale == upper_left[2] - lower_right[2]
    IN  << upper_left[1] + (pixel_coords[2] * real_scale) \div w,
           upper_left[2] - (pixel_coords[1] * imag_scale) \div h >>

\* The point of the complex plane a pixel stands for.  The quotients are exact
\* for the viewports used (a scale that is a multiple of the image size).
pixel_to_point(pixel_coords, w, h, upper_left, lower_right) ==
    LET real_scale == lower_right[1] - upper_left[1]
        imag_scale == upper_left[2] - lower_right[2]
    IN  << upper_left[1] + (pixel_coords[1] * real_scale) \div w,
           upper_left[2] - (pixel_coords[2] * imag_scale) \div h >>

\* ---------------------------------------------------------- render inputs
\* The viewport rendered: one unit of the plane per pixel, from (-1, 2).
upper_left_corner == <<-1, 2>>

lower_right_corner(w, h) == << upper_left_corner[1] + w, upper_left_corner[2] - h >>

color_theme == fire_theme

\* What every strategy computes for pixel (x, y): pixel_to_complex_point,
\* escape_time, iterations_to_color.  Each `let` of the source holds a value
\* computed once; the one-element sets bind complex_point and iterations the
\* same way.
compute_pixel(x, y, w, h) ==
    CHOOSE pixel \in
        { iterations_to_color(iterations, limitArg, color_theme) :
            iterations \in
                { escape_iterations(complex_point, limitArg) :
                    complex_point \in
                        { pixel_to_point(<<x, y>>, w, h, upper_left_corner,
                                         lower_right_corner(w, h)) } } } : TRUE

\* ------------------------------------------------------------ partitioning
Coords(w, h) == (0..(w - 1)) \X (0..(h - 1))

\* RgbImage::new(w, h): every pixel zero.
NewImage(w, h) == [c \in Coords(w, h) |-> BLACK]

\* An enumeration that never leaves the first row.
enumerate_first_row(w, h) == [i \in 1..(w * h) |-> << (i - 1) % w, 0 >>]

\* enumerate_pixels_mut(): row-major, x fastest.
enumerate_pixels(w, h) == [i \in 1..(w * h) |-> << (i - 1) % w, (i - 1) \div w >>]

\* struct PixelData { pixel, x, y }
PixelData(img, c) == [pixel |-> img[c], x |-> c[1], y |-> c[2]]

\* The loop of divide_image_into_segments over the enumerated pixels; indexing
\* `segments[curr_segment]` past the end panics.
RECURSIVE segments_loop(_, _, _, _, _, _, _)
segments_loop(img, order, i, segments, pixels_assigned, curr_segment, pixels_per_segment) ==
    IF i > Len(order) THEN [segments |-> segments, panicked |-> FALSE]
    ELSE IF curr_segment >= Len(segments) THEN [segments |-> segments, panicked |-> TRUE]
    ELSE LET pushed == [segments EXCEPT ![curr_segment + 1] =
                            Append(@, PixelData(img, order[i]))]
         IN  IF pixels_assigned + 1 = pixels_per_segment
             THEN segments_loop(img, order, i + 1, pushed, 0, curr_segment + 1,
                                pixels_per_segment)
             ELSE segments_loop(img, order, i + 1, pushed, pixels_assigned + 1,
                                curr_segment, pixels_per_segment)

\* A division that deals the pixels out to the segments in turn.
divide_image_into_segments_dealt(img, w, h, n) ==
    [segments |->
        [s \in 1..n |->
            LET mine == {i \in 1..(w * h) : (i - 1) % n = s - 1}
                order == enumerate_pixels(w, h)
                RECURSIVE take(_)
                take(i) == IF i > w * h THEN <<>>
                           ELSE IF i \in mine
                                THEN <<PixelData(img, order[i])>> \o take(i + 1)
                                ELSE take(i + 1)
            IN  take(1)],
     panicked |-> FALSE]

\* A division whose segment size is total_pixels / threads, without the `+ 1`.
divide_image_into_segments_floor(img, w, h, n) ==
    LET total_pixels == w * h
        pixels_per_segment == total_pixels \div n
    IN  segments_loop(img, enumerate_pixels(w, h), 1, [s \in 1..n |-> <<>>], 0, 0,
                      pixels_per_segment)

\* Splits the image into one segment per thread.
divide_image_into_segments(img, w, h, n) ==
    LET total_pixels == w * h
        pixels_per_segment == total_pixels \div n + 1
    IN  segments_loop(img, enumerate_pixels(w, h), 1, [s \in 1..n |-> <<>>], 0, 0,
                      pixels_per_segment)

\* A division by columns: the pixel is pushed onto rows[x] instead of rows[y].
divide_image_into_columns(img, w, h) ==
    [x \in 1..w |-> [y \in 1..h |-> PixelData(img, <<x - 1, y - 1>>)]]

\* A division that files every pixel under row 0's coordinates.
divide_image_into_rows_first(img, w, h) ==
    [y \in 1..h |-> [x \in 1..w |-> PixelData(img, <<x - 1, 0>>)]]

\* Splits the image into rows.
divide_image_into_rows(img, w, h) ==
    [y \in 1..h |-> [x \in 1..w |-> PixelData(img, <<x - 1, y - 1>>)]]

\* The image render_singlethreaded leaves: every pixel computed, in place.
render_singlethreaded(w, h) == [c \in Coords(w, h) |-> compute_pixel(c[1], c[2], w, h)]

\* ---------------------------------------------------------------- messages
\* enum Message { NewJob(Job), Terminate }
\* `seq` is the message's position in the send order.
NewJob(id, seq) == [type |-> "NewJob", job |-> id, seq |-> seq]

Terminate(seq) == [type |-> "Terminate", job |-> 0, seq |-> seq]

NoMessage == [type |-> "None", job |-> 0, seq |-> 0]

\* A send on a bounded channel (sync_channel(1)): it waits for room.
send_bounded(msg) ==
    /\ Len(queue) < 1
    /\ queue' = Append(queue, msg)
    /\ sent' = Append(sent, msg)

\* sender.send(msg) on mpsc::channel(): unbounded, so a send only appends.
Send(msg) ==
    /\ queue' = Append(queue, msg)
    /\ sent' = Append(sent, msg)

\* ------------------------------------------------------------ ThreadPool
\* ThreadPool::new without its assertion.
ThreadPool_new_unchecked(size) ==
    /\ sizeArg' = size
    /\ channel' = TRUE
    /\ poolSize' = size
    /\ wpc' = [w \in Workers |-> IF w <= size THEN "loop" ELSE "absent"]
    /\ pcMain' = "live"

\* ThreadPool::new(size): assert!(size > 0) precedes everything else; then the
\* channel is created and `size` workers are spawned, each at the top of its loop.
ThreadPool_new(size) ==
    /\ sizeArg' = size
    /\ IF ~(size > 0)
       THEN /\ pcMain' = "panicked"
            /\ UNCHANGED <<poolSize, channel, wpc>>
       ELSE /\ channel' = TRUE
            /\ poolSize' = size
            /\ wpc' = [w \in Workers |-> IF w <= size THEN "loop" ELSE "absent"]
            /\ pcMain' = "live"

\* ThreadPool::execute(f): box the closure and send it as NewJob; the job gets
\* the next id.
execute ==
    /\ Send(NewJob(Len(runCount) + 1, Len(sent) + 1))
    /\ runCount' = Append(runCount, 0)

\* ---------------------------------------------------------------- worker
\* `receiver.lock().unwrap()`: take the receiver mutex.
WorkerLock(w) ==
    /\ wpc[w] = "loop"
    /\ receiverLock = 0
    /\ receiverLock' = w
    /\ wpc' = [wpc EXCEPT ![w] = "recv"]
    /\ UNCHANGED pureVars
    /\ UNCHANGED <<mode, pcMain, sizeArg, poolSize, channel, queue, wmsg, termSent,
                   joinIdx, sent, dequeued, runCount, termRecv,
                   recvAfterTerm, counter, renderVars>>

\* A receive that reads the oldest message without removing it.
recv_peek == [msg |-> Head(queue), rest |-> queue]

\* A receive that takes the newest message (a stack, not a queue).
recv_newest == [msg |-> queue[Len(queue)], rest |-> SubSeq(queue, 1, Len(queue) - 1)]

\* Receiver::recv(): the oldest message leaves the channel.
recv == [msg |-> Head(queue), rest |-> Tail(queue)]

\* A receiver guard bound to a variable that lives until the loop body ends.
receiver_guard_held(w) == w

\* The MutexGuard of `receiver.lock().unwrap()` is a temporary of the `let`
\* statement: it is dropped, and the mutex freed, as the statement ends.
receiver_guard_dropped(w) == 0

\* `.recv().unwrap()` while holding the lock; the guard is a temporary of the
\* `let` statement, so the lock is released as the statement ends.
WorkerRecv(w) ==
    /\ wpc[w] = "recv"
    /\ receiverLock = w
    /\ queue # <<>>
    /\ wmsg' = [wmsg EXCEPT ![w] = recv.msg]
    /\ queue' = recv.rest
    /\ dequeued' = Append(dequeued, recv.msg.seq)
    /\ receiverLock' = receiver_guard_dropped(w)
    /\ wpc' = [wpc EXCEPT ![w] = "match"]
    /\ termRecv' = [termRecv EXCEPT ![w] =
                        IF recv.msg.type = "Terminate" THEN @ + 1 ELSE @]
    /\ recvAfterTerm' = [recvAfterTerm EXCEPT ![w] =
                        IF termRecv[w] > 0 THEN @ + 1 ELSE @]
    /\ UNCHANGED pureVars
    /\ UNCHANGED <<mode, pcMain, sizeArg, poolSize, channel, termSent, joinIdx, sent,
                   runCount, counter, renderVars>>

\* match message { NewJob(job) => job(), Terminate => break }
match_next(msg) == IF msg.type = "Terminate" THEN "exited" ELSE "job"

WorkerMatch(w) ==
    /\ wpc[w] = "match"
    /\ wpc' = [wpc EXCEPT ![w] = match_next(wmsg[w])]
    /\ wmsg' = [wmsg EXCEPT ![w] = IF wmsg[w].type = "Terminate" THEN NoMessage ELSE @]
    /\ UNCHANGED pureVars
    /\ UNCHANGED <<mode, pcMain, sizeArg, poolSize, channel, queue, receiverLock,
                   termSent, joinIdx, sent, dequeued, runCount, termRecv, recvAfterTerm,
                   counter, renderVars>>

\* The job returns: the worker goes round its loop again.
JobReturn(w) ==
    /\ wpc' = [wpc EXCEPT ![w] = "loop"]
    /\ runCount' = [runCount EXCEPT ![wmsg[w].job] = @ + 1]
    /\ wmsg' = [wmsg EXCEPT ![w] = NoMessage]

\* The job of the module's example: foo(i) does `*i.lock().unwrap() += 1`.
JobFoo(w) ==
    /\ mode = "client"
    /\ wpc[w] = "job"
    /\ counter' = counter + 1
    /\ JobReturn(w)
    /\ UNCHANGED pureVars
    /\ UNCHANGED <<mode, pcMain, sizeArg, poolSize, channel, queue, receiverLock,
                   termSent, joinIdx, sent, dequeued, termRecv,
                   recvAfterTerm, renderVars>>

\* ------------------------------------------------------------------ drop
\* A first loop that runs once too often / once too few.
drop_send_one_more == termSent >= poolSize + 1

drop_send_one_less == termSent >= poolSize - 1

\* A single loop that joins a worker right after sending one Terminate.
drop_send_then_join == termSent >= (IF joinIdx + 1 < poolSize THEN joinIdx + 1
                                    ELSE poolSize)

\* First loop of drop: one Terminate per worker.
drop_send_done == termSent >= poolSize

DropSend ==
    /\ pcMain = "drop_send"
    /\ IF drop_send_done
       THEN /\ pcMain' = "drop_join"
            /\ UNCHANGED <<queue, sent, termSent>>
       ELSE /\ Send(Terminate(Len(sent) + 1))
            /\ termSent' = termSent + 1
            /\ UNCHANGED pcMain
    /\ UNCHANGED pureVars
    /\ UNCHANGED <<mode, sizeArg, poolSize, channel, receiverLock, wpc, wmsg, joinIdx,
                   dequeued, runCount, termRecv, recvAfterTerm, counter,
                   renderVars>>

\* A drop that detaches the threads instead of joining them.
join_detached(w) == TRUE

\* thread.join(): returns once that worker's thread has finished.
join_ready(w) == wpc[w] = "exited"

\* Second loop of drop: take and join each worker's thread, in vector order.
DropJoin ==
    /\ pcMain = "drop_join"
    /\ IF joinIdx >= poolSize
       THEN /\ pcMain' = "dropped"
            /\ UNCHANGED joinIdx
       ELSE /\ join_ready(joinIdx + 1)
            /\ joinIdx' = joinIdx + 1
            /\ UNCHANGED pcMain
    /\ UNCHANGED pureVars
    /\ UNCHANGED <<mode, sizeArg, poolSize, channel, queue, receiverLock, wpc, wmsg,
                   termSent, sent, dequeued, runCount, termRecv,
                   recvAfterTerm, counter, renderVars>>

\* ------------------------------------------------- a client of the pool
\* let pool = ThreadPool::new(size);
ClientNew(size) ==
    /\ mode = "client"
    /\ pcMain = "start"
    /\ ThreadPool_new(size)
    /\ UNCHANGED pureVars
    /\ UNCHANGED <<mode, queue, receiverLock, wmsg, termSent, joinIdx, sent, dequeued,
                   runCount, termRecv, recvAfterTerm, counter, renderVars>>

\* for _ in 0..N { pool.execute(move || foo(i_inner)); }
ClientExecute ==
    /\ mode = "client"
    /\ pcMain = "live"
    /\ Len(runCount) < MaxJobs
    /\ execute
    /\ UNCHANGED pureVars
    /\ UNCHANGED <<mode, pcMain, sizeArg, poolSize, channel, receiverLock, wpc, wmsg,
                   termSent, joinIdx, dequeued, termRecv, recvAfterTerm,
                   counter, renderVars>>

\* The pool goes out of scope: drop begins.
ClientDrop ==
    /\ mode = "client"
    /\ pcMain = "live"
    /\ pcMain' = "drop_send"
    /\ UNCHANGED pureVars
    /\ UNCHANGED <<mode, poolVars, renderVars>>

\* ------------------------------------------------- the jobs of a render
\* The unit owned by the closure thread w is running: its own segment, or the
\* row / pixel captured by the job it received.
closure_unit(w) == IF mode = "segments" THEN units[w] ELSE units[wmsg[w].job]

\* Every pixel_data.pixel of the unit, computed into the closure's own storage.
compute_unit(unit) ==
    [k \in 1..Len(unit) |->
        [unit[k] EXCEPT !.pixel = compute_pixel(unit[k].x, unit[k].y, width, height)]]

\* First loop of a segment or row job; in a pixel job, the statements up to and
\* including the right-hand side of the assignment, which Rust evaluates before
\* the assignee expression that takes the lock.
JobCompute(w) ==
    /\ mode # "client"
    /\ wpc[w] = "job"
    /\ wunit' = [wunit EXCEPT ![w] = compute_unit(closure_unit(w))]
    /\ wpos' = [wpos EXCEPT ![w] = 1]
    /\ wpc' = [wpc EXCEPT ![w] =
                  IF Len(closure_unit(w)) = 0 THEN "job_done" ELSE "job_lock"]
    /\ UNCHANGED pureVars
    /\ UNCHANGED <<mode, pcMain, sizeArg, poolSize, channel, queue, receiverLock, wmsg,
                   termSent, joinIdx, sent, dequeued, runCount, termRecv,
                   recvAfterTerm, counter, width, height, threads, limitArg, pixels, bufLock,
                   units, spawnIdx, writes, saved>>

\* A lock() that returns whether or not the mutex is owned.
mutex_ignored == TRUE

\* Mutex::lock() on the image returns only while no thread owns the mutex.
mutex_free == bufLock = 0

\* `loop_pixels.lock().unwrap()` for the pixel_data at wpos: blocks while
\* another thread owns the image mutex.
JobLock(w) ==
    /\ wpc[w] = "job_lock"
    /\ mutex_free
    /\ bufLock' = w
    /\ wpc' = [wpc EXCEPT ![w] = "job_write"]
    /\ UNCHANGED pureVars
    /\ UNCHANGED <<mode, pcMain, sizeArg, poolSize, channel, queue, receiverLock, wmsg,
                   termSent, joinIdx, sent, dequeued, runCount, termRecv,
                   recvAfterTerm, counter, width, height, threads, limitArg, pixels, units,
                   spawnIdx, wunit, wpos, writes, saved>>

\* A write-back that targets the first pixel of the pixel_data's row.
write_target_row_start(pixel_data) == <<0, pixel_data.y>>

\* The coordinates a pixel_data is written back to.
write_target(pixel_data) == <<pixel_data.x, pixel_data.y>>

\* A guard that outlives the statement: thread w goes on owning the mutex.
guard_kept(w) == w

\* The MutexGuard is a temporary of the assignment statement: it is dropped,
\* and the mutex released, as the statement ends.
guard_dropped(w) == 0

\* `*guard.get_pixel_mut(x, y) = pixel_data.pixel;` then the guard, a temporary
\* of the statement, is dropped; the loop moves to the next pixel_data.
JobWrite(w) ==
    /\ wpc[w] = "job_write"
    /\ bufLock = w
    /\ LET pixel_data == wunit[w][wpos[w]]
       IN  /\ pixels' = [pixels EXCEPT ![write_target(pixel_data)] = pixel_data.pixel]
           /\ writes' = [writes EXCEPT ![write_target(pixel_data)] = @ + 1]
    /\ bufLock' = guard_dropped(w)
    /\ wpos' = [wpos EXCEPT ![w] = @ + 1]
    /\ wpc' = [wpc EXCEPT ![w] =
                  IF wpos[w] >= Len(wunit[w]) THEN "job_done" ELSE "job_lock"]
    /\ UNCHANGED pureVars
    /\ UNCHANGED <<mode, pcMain, sizeArg, poolSize, channel, queue, receiverLock, wmsg,
                   termSent, joinIdx, sent, dequeued, runCount, termRecv,
                   recvAfterTerm, counter, width, height, threads, limitArg, units, spawnIdx,
                   wunit, saved>>

\* A pooled job's closure returns to the worker loop; its unit is dropped.
JobDone(w) ==
    /\ mode \in {"rows", "pixels"}
    /\ wpc[w] = "job_done"
    /\ JobReturn(w)
    /\ wunit' = [wunit EXCEPT ![w] = <<>>]
    /\ wpos' = [wpos EXCEPT ![w] = 0]
    /\ UNCHANGED pureVars
    /\ UNCHANGED <<mode, pcMain, sizeArg, poolSize, channel, queue, receiverLock,
                   termSent, joinIdx, sent, dequeued, termRecv,
                   recvAfterTerm, counter, width, height, threads, limitArg, pixels, bufLock,
                   units, spawnIdx, writes, saved>>

\* A segment's thread reaches the end of its closure and finishes.
ThreadExit(w) ==
    /\ mode = "segments"
    /\ wpc[w] = "job_done"
    /\ wpc' = [wpc EXCEPT ![w] = "exited"]
    /\ wunit' = [wunit EXCEPT ![w] = <<>>]
    /\ wpos' = [wpos EXCEPT ![w] = 0]
    /\ UNCHANGED pureVars
    /\ UNCHANGED <<mode, pcMain, sizeArg, poolSize, channel, queue, receiverLock, wmsg,
                   termSent, joinIdx, sent, dequeued, runCount, termRecv,
                   recvAfterTerm, counter, width, height, threads, limitArg, pixels, bufLock,
                   units, spawnIdx, writes, saved>>

\* ------------------------------ render_multithreaded_preallocated_segments
\* Read the dimensions, divide the image into `threads` segments.
SegmentsBegin ==
    /\ mode = "segments"
    /\ pcMain = "start"
    /\ bufLock = 0
    /\ LET d == divide_image_into_segments(pixels, width, height, threads)
       IN  /\ units' = d.segments
           /\ pcMain' = IF d.panicked THEN "panicked" ELSE "spawn"
    /\ UNCHANGED pureVars
    /\ UNCHANGED <<mode, poolVars, width, height, threads, limitArg, pixels, bufLock, spawnIdx,
                   wunit, wpos, writes, saved>>

\* for segment in segments { thread_handles.push(thread::spawn(..)) }
SegmentsSpawn ==
    /\ mode = "segments"
    /\ pcMain = "spawn"
    /\ IF spawnIdx >= Len(units)
       THEN /\ pcMain' = "join"
            /\ UNCHANGED <<spawnIdx, wpc>>
       ELSE /\ spawnIdx' = spawnIdx + 1
            /\ wpc' = [wpc EXCEPT ![spawnIdx + 1] = "job"]
            /\ UNCHANGED pcMain
    /\ UNCHANGED pureVars
    /\ UNCHANGED <<mode, sizeArg, poolSize, channel, queue, receiverLock, wmsg,
                   termSent, joinIdx, sent, dequeued, runCount, termRecv,
                   recvAfterTerm, counter, width, height, threads, limitArg, pixels, bufLock,
                   units, wunit, wpos, writes, saved>>

\* for handle in thread_handles { handle.join().unwrap(); } and return.
SegmentsJoin ==
    /\ mode = "segments"
    /\ pcMain = "join"
    /\ IF joinIdx >= spawnIdx
       THEN /\ pcMain' = "returned"
            /\ UNCHANGED joinIdx
       ELSE /\ join_ready(joinIdx + 1)
            /\ joinIdx' = joinIdx + 1
            /\ UNCHANGED pcMain
    /\ UNCHANGED pureVars
    /\ UNCHANGED <<mode, sizeArg, poolSize, channel, queue, receiverLock, wpc, wmsg,
                   termSent, sent, dequeued, runCount, termRecv,
                   recvAfterTerm, counter, renderVars>>

\* ---------------------------------------- render_multithreaded_pooled_rows
\* Read the dimensions, divide the image into rows, create the pool.
RowsBegin ==
    /\ mode = "rows"
    /\ pcMain = "start"
    /\ bufLock = 0
    /\ units' = divide_image_into_rows(pixels, width, height)
    /\ ThreadPool_new(threads)
    /\ UNCHANGED pureVars
    /\ UNCHANGED <<mode, queue, receiverLock, wmsg, termSent, joinIdx, sent, dequeued,
                   runCount, termRecv, recvAfterTerm, counter, width,
                   height, threads, limitArg, pixels, bufLock, spawnIdx, wunit, wpos, writes,
                   saved>>

\* for row in rows { pool.execute(move || ..) }: job j owns units[j].
RowsSubmit ==
    /\ mode = "rows"
    /\ pcMain = "live"
    /\ Len(runCount) < Len(units)
    /\ execute
    /\ UNCHANGED pureVars
    /\ UNCHANGED <<mode, pcMain, sizeArg, poolSize, channel, receiverLock, wpc, wmsg,
                   termSent, joinIdx, dequeued, termRecv, recvAfterTerm,
                   counter, renderVars>>

\* The function body ends: `pool` goes out of scope and is dropped.
RowsEnd ==
    /\ mode = "rows"
    /\ pcMain = "live"
    /\ Len(runCount) >= Len(units)
    /\ pcMain' = "drop_send"
    /\ UNCHANGED pureVars
    /\ UNCHANGED <<mode, poolVars, renderVars>>

\* -------------------------------------- render_multithreaded_pooled_pixels
\* Read the dimensions, create the pool.
PixelsBegin ==
    /\ mode = "pixels"
    /\ pcMain = "start"
    /\ bufLock = 0
    /\ ThreadPool_new(threads)
    /\ UNCHANGED pureVars
    /\ UNCHANGED <<mode, queue, receiverLock, wmsg, termSent, joinIdx, sent, dequeued,
                   runCount, termRecv, recvAfterTerm, counter, renderVars>>

\* `pixels.lock().unwrap()` in the head of the `for`: the guard lives until the
\* loop ends.
PixelsLock ==
    /\ mode = "pixels"
    /\ pcMain = "live"
    /\ bufLock = 0
    /\ bufLock' = MainThread
    /\ pcMain' = "submit"
    /\ UNCHANGED pureVars
    /\ UNCHANGED <<mode, poolVars, width, height, threads, limitArg, pixels, units, spawnIdx,
                   wunit, wpos, writes, saved>>

\* One iteration of the loop: the closure captures (x, y) of the next pixel in
\* enumeration order and is sent to the pool.
PixelsSubmit ==
    /\ mode = "pixels"
    /\ pcMain = "submit"
    /\ Len(units) < width * height
    /\ units' = Append(units,
           <<PixelData(pixels, enumerate_pixels(width, height)[Len(units) + 1])>>)
    /\ execute
    /\ UNCHANGED pureVars
    /\ UNCHANGED <<mode, pcMain, sizeArg, poolSize, channel, receiverLock, wpc, wmsg,
                   termSent, joinIdx, dequeued, termRecv, recvAfterTerm,
                   counter, width, height, threads, limitArg, pixels, bufLock, spawnIdx, wunit,
                   wpos, writes, saved>>

\* The owner of the buffer lock if the guard of the `for` head outlived the
\* function body.
loop_guard_kept == MainThread

\* The guard of `pixels.lock().unwrap()` in the `for` head is a temporary of
\* the loop statement: it is dropped when the loop ends, leaving the lock free.
loop_guard_dropped == 0

\* The loop ends and its guard is dropped; then the function body ends and
\* `pool` is dropped.
PixelsUnlock ==
    /\ mode = "pixels"
    /\ pcMain = "submit"
    /\ Len(units) >= width * height
    /\ bufLock' = loop_guard_dropped
    /\ pcMain' = "drop_send"
    /\ UNCHANGED pureVars
    /\ UNCHANGED <<mode, poolVars, width, height, threads, limitArg, pixels, units, spawnIdx,
                   wunit, wpos, writes, saved>>

\* ------------------------------------------------------------------- main
\* drop has returned: the pooled render function returns to main.
RenderReturn ==
    /\ mode \in {"rows", "pixels"}
    /\ pcMain = "dropped"
    /\ pcMain' = "returned"
    /\ UNCHANGED pureVars
    /\ UNCHANGED <<mode, poolVars, renderVars>>

\* output_image.lock().unwrap().save(..): main reads the whole image.
MainSave ==
    /\ pcMain = "returned"
    /\ bufLock = 0
    /\ saved' = pixels
    /\ pcMain' = "saved"
    /\ UNCHANGED pureVars
    /\ UNCHANGED <<mode, poolVars, width, height, threads, limitArg, pixels, bufLock, units,
                   spawnIdx, wunit, wpos, writes>>

\* ----------------------------------------------------------- specification
InitPool ==
    /\ pcMain = "start"
    /\ sizeArg = -1
    /\ poolSize = 0
    /\ channel = FALSE
    /\ queue = <<>>
    /\ receiverLock = 0
    /\ wpc = [w \in Workers |-> "absent"]
    /\ wmsg = [w \in Workers |-> NoMessage]
    /\ termSent = 0
    /\ joinIdx = 0
    /\ sent = <<>>
    /\ dequeued = <<>>
    /\ runCount = <<>>
    /\ termRecv = [w \in Workers |-> 0]
    /\ recvAfterTerm = [w \in Workers |-> 0]
    /\ counter = 0

\* No image is involved when the pool is used on its own.
InitNoRender ==
    /\ width = 0
    /\ height = 0
    /\ threads = 0
    /\ limitArg = 0
    /\ pixels = <<>>
    /\ bufLock = 0
    /\ units = <<>>
    /\ spawnIdx = 0
    /\ wunit = [w \in Workers |-> <<>>]
    /\ wpos = [w \in Workers |-> 0]
    /\ writes = <<>>
    /\ saved = <<>>

\* No colour is mapped when iterations_to_color is not called on its own.
InitNoColor ==
    /\ argIterations = 0
    /\ argLimit = 0
    /\ argPalette = <<>>
    /\ subrange = 0
    /\ color = <<>>

\* No channel is blended when blend_color_channel is not called on its own.
InitNoBlend ==
    /\ argA = 0
    /\ argB = 0
    /\ argDegree = Frac(0, 1)
    /\ blended = -1
    /\ blendedBack = -1

\* No point is tested when escape_time is not called on its own.
InitNoEscape ==
    /\ argC = <<0, 0>>
    /\ argEscapeLimit = 0
    /\ escaped = -1

\* No pixel is mapped when pixel_to_point is not called on its own.
InitNoMapper ==
    /\ argPixel = <<0, 0>>
    /\ argOther = <<0, 0>>
    /\ argBounds = <<0, 0>>
    /\ argUpperLeft = <<0, 0>>
    /\ argLowerRight = <<0, 0>>
    /\ point = <<>>
    /\ pointOther = <<>>

\* None of the functions is called on its own.
InitNoCalls ==
    /\ InitNoColor
    /\ InitNoBlend
    /\ InitNoEscape
    /\ InitNoMapper

Init ==
    /\ mode = "client"
    /\ InitPool
    /\ InitNoRender
    /\ InitNoCalls

Next ==
    \/ \E size \in 0..MaxWorkers : ClientNew(size)
    \/ ClientExecute
    \/ ClientDrop
    \/ DropSend
    \/ DropJoin
    \/ \E w \in Workers : WorkerLock(w)
    \/ \E w \in Workers : WorkerRecv(w)
    \/ \E w \in Workers : WorkerMatch(w)
    \/ \E w \in Workers : JobFoo(w)

Spec == Init /\ [][Next]_vars

\* One worker thread's next statement, and the dropping thread's.
WorkerStep(w) == WorkerLock(w) \/ WorkerRecv(w) \/ WorkerMatch(w) \/ JobFoo(w)

DropStep == DropSend \/ DropJoin

\* The scheduler lets every thread that can take a step take one eventually;
\* the client is not obliged to submit or to drop.
FairSpec ==
    /\ Spec
    /\ \A w \in Workers : WF_vars(WorkerStep(w))
    /\ WF_vars(DropStep)

\* The renders: main has created the image; strategy, size and thread count
\* are inputs.
RenderInit ==
    /\ mode \in {"segments", "rows", "pixels"}
    /\ InitPool
    /\ width \in 1..MaxPixels
    /\ height \in 1..MaxPixels
    /\ width * height <= MaxPixels
    /\ threads \in 1..MaxWorkers
    /\ limitArg = RenderLimit
    /\ pixels = NewImage(width, height)
    /\ bufLock = 0
    /\ units = <<>>
    /\ spawnIdx = 0
    /\ wunit = [w \in Workers |-> <<>>]
    /\ wpos = [w \in Workers |-> 0]
    /\ writes = [c \in Coords(width, height) |-> 0]
    /\ saved = <<>>
    /\ InitNoCalls

RenderNext ==
    \/ SegmentsBegin
    \/ SegmentsSpawn
    \/ SegmentsJoin
    \/ RowsBegin
    \/ RowsSubmit
    \/ RowsEnd
    \/ PixelsBegin
    \/ PixelsLock
    \/ PixelsSubmit
    \/ PixelsUnlock
    \/ DropSend
    \/ DropJoin
    \/ RenderReturn
    \/ MainSave
    \/ \E w \in Workers : WorkerLock(w)
    \/ \E w \in Workers : WorkerRecv(w)
    \/ \E w \in Workers : WorkerMatch(w)
    \/ \E w \in Workers : JobCompute(w)
    \/ \E w \in Workers : JobLock(w)
    \/ \E w \in Workers : JobWrite(w)
    \/ \E w \in Workers : JobDone(w)
    \/ \E w \in Workers : ThreadExit(w)

RenderSpec == RenderInit /\ [][RenderNext]_vars

\* render_multithreaded_pooled_pixels alone, under a fair scheduler.
PixelsInit ==
    /\ RenderInit
    /\ mode = "pixels"
    /\ width * height <= MaxLimitPixels

PixelsNext ==
    \/ PixelsBegin
    \/ PixelsLock
    \/ PixelsSubmit
    \/ PixelsUnlock
    \/ DropSend
    \/ DropJoin
    \/ RenderReturn
    \/ MainSave
    \/ \E w \in Workers : WorkerLock(w)
    \/ \E w \in Workers : WorkerRecv(w)
    \/ \E w \in Workers : WorkerMatch(w)
    \/ \E w \in Workers : JobCompute(w)
    \/ \E w \in Workers : JobLock(w)
    \/ \E w \in Workers : JobWrite(w)
    \/ \E w \in Workers : JobDone(w)

\* One statement of the rendering thread, and one of a pool worker.
MainStep ==
    \/ PixelsBegin
    \/ PixelsLock
    \/ PixelsSubmit
    \/ PixelsUnlock
    \/ DropSend
    \/ DropJoin
    \/ RenderReturn
    \/ MainSave

PoolWorkerStep(w) ==
    \/ WorkerLock(w)
    \/ WorkerRecv(w)
    \/ WorkerMatch(w)
    \/ JobCompute(w)
    \/ JobLock(w)
    \/ JobWrite(w)
    \/ JobDone(w)

\* The scheduler lets every thread that can take a step take one eventually.
PixelsFairSpec ==
    /\ PixelsInit
    /\ [][PixelsNext]_vars
    /\ WF_vars(MainStep)
    /\ \A w \in Workers : WF_vars(PoolWorkerStep(w))

\* The renders with the iteration limit as an input too: parse_input takes any
\* u32, 0 included, and hands it to the render.
LimitInit ==
    /\ mode \in {"segments", "rows", "pixels"}
    /\ InitPool
    /\ width \in 1..MaxLimitPixels
    /\ height \in 1..MaxLimitPixels
    /\ width * height <= MaxLimitPixels
    /\ threads \in 1..MaxWorkers
    /\ limitArg \in 0..RenderLimit
    /\ pixels = NewImage(width, height)
    /\ bufLock = 0
    /\ units = <<>>
    /\ spawnIdx = 0
    /\ wunit = [w \in Workers |-> <<>>]
    /\ wpos = [w \in Workers |-> 0]
    /\ writes = [c \in Coords(width, height) |-> 0]
    /\ saved = <<>>
    /\ InitNoCalls

LimitSpec == LimitInit /\ [][RenderNext]_vars

\* The two divisions on their own, as the unit tests call them: a new image of
\* any size up to MaxSide x MaxSide (an image may have no pixels at all), any
\* thread count up to MaxThreads.
DivideInit ==
    /\ mode = "divide"
    /\ InitPool
    /\ width \in 0..MaxSide
    /\ height \in 0..MaxSide
    /\ threads \in 1..MaxThreads
    /\ limitArg = 0
    /\ pixels = NewImage(width, height)
    /\ bufLock = 0
    /\ units = <<>>
    /\ spawnIdx = 0
    /\ wunit = [w \in Workers |-> <<>>]
    /\ wpos = [w \in Workers |-> 0]
    /\ writes = [c \in Coords(width, height) |-> 0]
    /\ saved = <<>>
    /\ InitNoCalls

\* let segments = divide_image_into_segments(&mut img, width, height, threads);
CallDivideSegments ==
    /\ mode = "divide"
    /\ pcMain = "start"
    /\ LET d == divide_image_into_segments(pixels, width, height, threads)
       IN  /\ units' = d.segments
           /\ pcMain' = IF d.panicked THEN "panicked" ELSE "segments"
    /\ UNCHANGED pureVars
    /\ UNCHANGED <<mode, poolVars, width, height, threads, limitArg, pixels, bufLock, spawnIdx,
                   wunit, wpos, writes, saved>>

\* let rows = divide_image_into_rows(&mut img, width, height);
CallDivideRows ==
    /\ mode = "divide"
    /\ pcMain = "start"
    /\ units' = divide_image_into_rows(pixels, width, height)
    /\ pcMain' = "rows"
    /\ UNCHANGED pureVars
    /\ UNCHANGED <<mode, poolVars, width, height, threads, limitArg, pixels, bufLock, spawnIdx,
                   wunit, wpos, writes, saved>>

DivideNext ==
    \/ CallDivideSegments
    \/ CallDivideRows

DivideSpec == DivideInit /\ [][DivideNext]_vars

\* The colours palettes are made of here.
PaletteColors == {RED, GREEN, BLUE}

\* Every palette of 2 .. MaxPalette colours.
Palettes == UNION {[1..k -> PaletteColors] : k \in 2..MaxPalette}

\* iterations_to_color on its own, as its unit tests call it: any limit up to
\* MaxLimit, any iteration count up to the limit, any palette.
ColorInit ==
    /\ mode = "color"
    /\ InitPool
    /\ InitNoRender
    /\ argLimit \in 1..MaxLimit
    /\ argIterations \in 0..argLimit
    /\ argPalette \in Palettes
    /\ subrange = 0
    /\ color = <<>>
    /\ InitNoBlend
    /\ InitNoEscape
    /\ InitNoMapper

\* output_gradient.push(iterations_to_color(i, limit, &palette));
CallIterationsToColor ==
    /\ \/ mode = "color" /\ pcMain = "start"
       \/ mode = "palette" /\ pcMain = "constructed"
    /\ color' = iterations_to_color(argIterations, argLimit, argPalette)
    /\ subrange' = IF is_limit(argIterations, argLimit) THEN 0
                   ELSE chosen_subrange(argIterations, argLimit, argPalette)
    /\ pcMain' = IF color' = Panic THEN "panicked" ELSE "mapped"
    /\ UNCHANGED <<mode, poolVars, renderVars, argIterations, argLimit, argPalette,
                   blendVars, escapeVars, mapperVars>>

ColorNext == CallIterationsToColor

ColorSpec == ColorInit /\ [][ColorNext]_vars

\* Every Vec of at most MaxVecLen colours: a Vec of any length can be built.
Vecs == UNION {[1..k -> PaletteColors] : k \in 0..MaxVecLen}

\* A palette is built first and handed to iterations_to_color afterwards.
PaletteInit ==
    /\ mode = "palette"
    /\ InitPool
    /\ InitNoRender
    /\ argLimit \in 1..MaxLimit
    /\ argIterations \in 0..argLimit
    /\ argPalette = <<>>
    /\ subrange = 0
    /\ color = <<>>
    /\ InitNoBlend
    /\ InitNoEscape
    /\ InitNoMapper

\* let palette: Vec<Rgb<u8>> = vec![RED, GREEN, BLUE];
ConstructPalette ==
    /\ mode = "palette"
    /\ pcMain = "start"
    /\ \E v \in Vecs : argPalette' = v
    /\ pcMain' = "constructed"
    /\ UNCHANGED <<mode, poolVars, renderVars, argIterations, argLimit, subrange,
                   color, blendVars, escapeVars, mapperVars>>

PaletteNext ==
    \/ ConstructPalette
    \/ CallIterationsToColor

PaletteSpec == PaletteInit /\ [][PaletteNext]_vars

\* The points tested: the integer points of the square of side 2 * MaxC
\* around the origin, on whose orbits f64 arithmetic is exact.
Points == ((-MaxC)..MaxC) \X ((-MaxC)..MaxC)

\* escape_time on its own: any point, any limit from 0 up.
EscapeInit ==
    /\ mode = "escape"
    /\ InitPool
    /\ InitNoRender
    /\ InitNoColor
    /\ InitNoBlend
    /\ InitNoMapper
    /\ argC \in Points
    /\ argEscapeLimit \in 0..MaxEscapeLimit
    /\ escaped = -1

\* let iterations = crate::mandelbrot::escape_time(complex_point, limit);
CallEscapeTime ==
    /\ mode = "escape"
    /\ pcMain = "start"
    /\ escaped' = escape_iterations(argC, argEscapeLimit)
    /\ pcMain' = "escaped"
    /\ UNCHANGED <<mode, poolVars, renderVars, colorVars, blendVars, mapperVars,
                   argC, argEscapeLimit>>

EscapeNext == CallEscapeTime

EscapeSpec == EscapeInit /\ [][EscapeNext]_vars

\* The viewports drawn for an image of w x h pixels: an upper left corner next
\* to the origin and a whole number of units per pixel each way, so that every
\* quotient is exact; 0 and -1 units give the degenerate and the reversed ones.
Viewports(w, h) ==
    { << ul, << ul[1] + s[1] * w, ul[2] - s[2] * h >> >> :
        ul \in {-1, 0} \X {0, 1}, s \in ((-1)..MaxScale) \X ((-1)..MaxScale) }

\* pixel_to_point on its own, as its unit test calls it, for two pixels of
\* the same image and viewport.
MapperInit ==
    /\ mode = "mapper"
    /\ InitPool
    /\ InitNoRender
    /\ InitNoColor
    /\ InitNoBlend
    /\ InitNoEscape
    /\ argBounds \in (1..MaxMapSide) \X (1..MaxMapSide)
    /\ argPixel \in Coords(argBounds[1], argBounds[2])
    /\ argOther \in Coords(argBounds[1], argBounds[2])
    /\ \E v \in Viewports(argBounds[1], argBounds[2]) :
           /\ argUpperLeft = v[1]
           /\ argLowerRight = v[2]
    /\ point = <<>>
    /\ pointOther = <<>>

\* pixel_to_point((25, 75), 100, 100, Complex {..}, Complex {..})
CallPixelToPoint ==
    /\ mode = "mapper"
    /\ pcMain = "start"
    /\ point' = pixel_to_point(argPixel, argBounds[1], argBounds[2], argUpperLeft,
                               argLowerRight)
    /\ pcMain' = "mapped_one"
    /\ UNCHANGED <<mode, poolVars, renderVars, colorVars, blendVars, escapeVars,
                   argPixel, argOther, argBounds, argUpperLeft, argLowerRight,
                   pointOther>>

\* The same call for the other pixel.
CallPixelToPointOther ==
    /\ mode = "mapper"
    /\ pcMain = "mapped_one"
    /\ pointOther' = pixel_to_point(argOther, argBounds[1], argBounds[2],
                                    argUpperLeft, argLowerRight)
    /\ pcMain' = "mapped_both"
    /\ UNCHANGED <<mode, poolVars, renderVars, colorVars, blendVars, escapeVars,
                   argPixel, argOther, argBounds, argUpperLeft, argLowerRight,
                   point>>

MapperNext ==
    \/ CallPixelToPoint
    \/ CallPixelToPointOther

MapperSpec == MapperInit /\ [][MapperNext]_vars

\* The channel values drawn: the MaxChannelOffset + 1 lowest and highest of u8.
Channels == (0..MaxChannelOffset) \cup ((255 - MaxChannelOffset)..255)

\* The degrees drawn: every n / 2^j in [0, 1] with j <= MaxDegreeBits.  On
\* these every f64 operation of blend_color_channel, and 1.0 - degree, is exact.
Degrees == {Frac(n, 2 ^ j) : <<n, j>> \in
               {q \in (0..(2 ^ MaxDegreeBits)) \X (0..MaxDegreeBits) : q[1] <= 2 ^ q[2]}}

\* 1.0 - degree
one_minus(degree) == Frac(degree.d - degree.n, degree.d)

\* blend_color_channel on its own, as its unit test calls it.
BlendInit ==
    /\ mode = "blend"
    /\ InitPool
    /\ InitNoRender
    /\ InitNoColor
    /\ argA \in Channels
    /\ argB \in Channels
    /\ argDegree \in Degrees
    /\ blended = -1
    /\ blendedBack = -1
    /\ InitNoEscape
    /\ InitNoMapper

\* assert_eq!(blend_color_channel(255, 0, 0.25), 191);
CallBlendColorChannel ==
    /\ mode = "blend"
    /\ pcMain = "start"
    /\ blended' = blend_color_channel(argA, argB, argDegree)
    /\ pcMain' = "blended"
    /\ UNCHANGED <<mode, poolVars, renderVars, colorVars, escapeVars, mapperVars,
                   argA, argB, argDegree,
                   blendedBack>>

\* assert_eq!(blend_color_channel(0, 255, 0.75), 191);
CallBlendColorChannelBack ==
    /\ mode = "blend"
    /\ pcMain = "blended"
    /\ blendedBack' = blend_color_channel(argB, argA, one_minus(argDegree))
    /\ pcMain' = "blended_back"
    /\ UNCHANGED <<mode, poolVars, renderVars, colorVars, escapeVars, mapperVars,
                   argA, argB, argDegree,
                   blended>>

BlendNext ==
    \/ CallBlendColorChannel
    \/ CallBlendColorChannelBack

BlendSpec == BlendInit /\ [][BlendNext]_vars

\* ================================================================== claims
JobsSubmitted == Len(runCount)

PoolWorkers == 1..poolSize

\* The workers holding job j: they received it and have not finished it.
Holders(j) == {w \in Workers : wmsg[w].type = "NewJob" /\ wmsg[w].job = j}

\* C1: no job is ever run twice or held by two workers, and when drop has
\* returned every job submitted before it has run exactly once: the count of
\* completed jobs equals the count of submitted jobs.
C1_EveryJobRunsExactlyOnce ==
    /\ \A j \in 1..JobsSubmitted :
         /\ runCount[j] <= 1
         /\ Cardinality(Holders(j)) <= 1
         /\ runCount[j] = 1 => Holders(j) = {}
    /\ pcMain = "dropped" =>
         /\ \A j \in 1..JobsSubmitted : runCount[j] = 1
         /\ counter = JobsSubmitted

C1_Witness ==
    /\ pcMain = "dropped"
    /\ JobsSubmitted = MaxJobs
    /\ counter = MaxJobs
    /\ poolSize >= 2

\* C2: when drop has returned, every worker thread has left its loop and has
\* been joined; none still holds the receiver or a message.
C2_AllWorkersJoined ==
    pcMain = "dropped" =>
        /\ joinIdx = poolSize
        /\ \A w \in PoolWorkers : wpc[w] = "exited" /\ wmsg[w] = NoMessage
        /\ receiverLock = 0

C2_Witness ==
    /\ pcMain = "dropped"
    /\ poolSize = MaxWorkers
    /\ joinIdx = MaxWorkers
    /\ JobsSubmitted >= 1

\* C3: under fair scheduling every submitted job is eventually run to
\* completion, and a drop that has started eventually returns.
C3_Liveness ==
    /\ \A j \in 1..MaxJobs :
         (JobsSubmitted >= j) ~> (JobsSubmitted >= j /\ runCount[j] = 1)
    /\ (pcMain = "drop_send") ~> (pcMain = "dropped")

C3_Witness ==
    /\ pcMain = "drop_join"
    /\ joinIdx = 0
    /\ wpc[1] = "job"
    /\ queue # <<>>

TerminatesIn(q) == Cardinality({i \in 1..Len(q) : q[i].type = "Terminate"})

\* C4: drop sends exactly poolSize Terminate messages; a worker receives at
\* most one and nothing after it; once drop has returned each worker has
\* received exactly one and none is left in the channel.
C4_OneTerminatePerWorker ==
    /\ termSent <= poolSize
    /\ TerminatesIn(sent) = termSent
    /\ pcMain \in {"drop_join", "dropped"} => termSent = poolSize
    /\ \A w \in Workers : termRecv[w] <= 1 /\ recvAfterTerm[w] = 0
    /\ pcMain = "dropped" =>
         /\ \A w \in PoolWorkers : termRecv[w] = 1
         /\ TerminatesIn(queue) = 0

C4_Witness ==
    /\ pcMain = "dropped"
    /\ poolSize = MaxWorkers
    /\ termSent = MaxWorkers
    /\ \A w \in Workers : termRecv[w] = 1

\* Messages are received in the order they were sent.
ReceivedInSendOrder == \A i \in 1..Len(dequeued) : dequeued[i] = i

\* Jobs are received in the order they were submitted.
JobsDequeuedInSubmissionOrder ==
    \A i, k \in 1..Len(dequeued) :
        (i < k /\ sent[dequeued[i]].type = "NewJob" /\ sent[dequeued[k]].type = "NewJob")
            => sent[dequeued[i]].job < sent[dequeued[k]].job

\* No worker has received a Terminate while a job is still in the channel.
NoTerminateBeforeQueuedJob ==
    (\E w \in Workers : termRecv[w] > 0) =>
        \A i \in 1..Len(queue) : queue[i].type = "Terminate"

\* A job's body is entered only when no job submitted before it is still
\* waiting, dequeued, to be entered.
JobsStartInSubmissionOrder ==
    \A w \in Workers :
        (wpc[w] = "match" /\ wpc'[w] = "job") =>
            \A v \in Workers :
                (wpc[v] = "match" /\ wmsg[v].type = "NewJob")
                    => wmsg[v].job >= wmsg[w].job

\* C5 as claimed: messages are received in send order, jobs START (their
\* bodies are entered) in submission order, and no Terminate is received while
\* a job is still queued.
C5_Original_StartOrder ==
    /\ [](ReceivedInSendOrder /\ NoTerminateBeforeQueuedJob)
    /\ [][JobsStartInSubmissionOrder]_vars

\* C5 as amended: messages are received in send order, so jobs are DEQUEUED in
\* submission order, and no Terminate is received while a job is still queued.
C5_Fifo ==
    /\ ReceivedInSendOrder
    /\ JobsDequeuedInSubmissionOrder
    /\ NoTerminateBeforeQueuedJob

C5_Witness ==
    /\ Len(dequeued) >= 3
    /\ \E w \in Workers : termRecv[w] > 0
    /\ poolSize >= 2

\* C6: in every state of a live pool a submit step is enabled, and it appends
\* the job to the channel without any worker having to move.
C6_ExecuteNeverBlocks ==
    (mode = "client" /\ pcMain = "live" /\ JobsSubmitted < MaxJobs) =>
        ENABLED (/\ ClientExecute
                 /\ queue' = Append(queue, NewJob(JobsSubmitted + 1, Len(sent) + 1)))

C6_Witness ==
    /\ pcMain = "live"
    /\ Len(queue) >= 1
    /\ JobsSubmitted < MaxJobs
    /\ \A w \in PoolWorkers : wpc[w] = "job"

\* C7: ThreadPool::new(0) panics before the channel or any worker exists, and
\* no pool value is produced; no other size panics.
C7_NewZeroPanics ==
    /\ sizeArg = 0 =>
         /\ pcMain = "panicked"
         /\ ~channel
         /\ poolSize = 0
         /\ \A w \in Workers : wpc[w] = "absent"
         /\ queue = <<>>
    /\ pcMain = "panicked" => sizeArg = 0

C7_Witness ==
    /\ sizeArg = 0
    /\ pcMain = "panicked"

RenderOver == pcMain \in {"returned", "saved"}

\* C8: whichever strategy ran and however its threads interleaved, the image
\* it leaves when it returns is the one render_singlethreaded computes.
C8_StrategiesAgree == RenderOver => pixels = render_singlethreaded(width, height)

C8_Witness ==
    /\ mode = "pixels"
    /\ pcMain = "returned"
    /\ width = 2 /\ height = 2
    /\ threads = 2
    /\ pixels # NewImage(width, height)

\* C9: when a render has returned, every pixel has been written with its
\* computed colour, no thread is left that could still write (the pool has been
\* torn down and joined), and main's save reads the finished image.
C9_CompleteAtReturn ==
    RenderOver =>
        /\ \A c \in Coords(width, height) :
             writes[c] >= 1 /\ pixels[c] = compute_pixel(c[1], c[2], width, height)
        /\ \A w \in Workers : wpc[w] \in {"absent", "exited"}
        /\ bufLock = 0
        /\ mode \in {"rows", "pixels"} => (joinIdx = poolSize /\ queue = <<>>)
        /\ pcMain = "saved" =>
             \A c \in Coords(width, height) :
                 saved[c] = compute_pixel(c[1], c[2], width, height)

C9_Witness ==
    /\ mode = "rows"
    /\ pcMain = "saved"
    /\ width = 2 /\ height = 2
    /\ threads = 2
    /\ saved = pixels

\* The places <<unit, index>> of the pixel_data held by the work units.
UnitPlaces == UNION {{<<u, k>> : k \in 1..Len(units[u])} : u \in 1..Len(units)}

\* The coordinates of the pixel_data at place p.
UnitCoord(p) == <<units[p[1]][p[2]].x, units[p[1]][p[2]].y>>

UnitCoords == {UnitCoord(p) : p \in UnitPlaces}

\* Every work unit of the strategy has been created.
AllUnitsCreated ==
    IF mode = "pixels" THEN Len(units) = width * height
    ELSE pcMain \notin {"start", "panicked"}

\* C10: the work units partition the image (no coordinate is held at two
\* places, every unit lies inside the image, and once all units exist every
\* pixel is in one), so no pixel is written twice and each is written exactly
\* once per render.
C10_UnitsPartitionImage ==
    /\ Cardinality(UnitCoords) = Cardinality(UnitPlaces)
    /\ UnitCoords \subseteq Coords(width, height)
    /\ AllUnitsCreated => UnitCoords = Coords(width, height)
    /\ \A c \in Coords(width, height) :
         /\ writes[c] <= 1
         /\ RenderOver => writes[c] = 1

C10_Witness ==
    /\ mode = "segments"
    /\ pcMain = "returned"
    /\ width = 2 /\ height = 2
    /\ threads = 2
    /\ \A c \in Coords(width, height) : writes[c] = 1

\* The threads that are inside a critical section of the image mutex: a worker
\* between its lock() and the end of its write statement, or the rendering
\* thread inside the pixel strategy's `for`.
BufHolders ==
    {w \in Workers : wpc[w] = "job_write"}
        \cup (IF pcMain = "submit" THEN {MainThread} ELSE {})

\* A step that changes the image is the write statement of the thread that
\* owns the image mutex.
WriteUnderLock ==
    pixels' # pixels =>
        /\ bufLock \in Workers
        /\ wpc[bufLock] = "job_write"
        /\ \E c \in Coords(width, height) :
             /\ writes'[c] = writes[c] + 1
             /\ \A o \in Coords(width, height) \ {c} :
                  pixels'[o] = pixels[o] /\ writes'[o] = writes[o]

\* C11: at most one thread is inside a critical section of the image mutex,
\* that thread is the mutex's owner, and every step that writes a pixel (or
\* counts as a write) is taken by the owner at its write statement.
C11_WritesUnderTheLock ==
    /\ [](/\ Cardinality(BufHolders) <= 1
          /\ BufHolders = (IF bufLock = 0 THEN {} ELSE {bufLock}))
    /\ [][WriteUnderLock]_vars
    /\ [][writes' # writes => (bufLock \in Workers /\ wpc[bufLock] = "job_write")]_vars

C11_Witness ==
    /\ mode = "rows"
    /\ \E w, v \in Workers :
         /\ wpc[w] = "job_write" /\ bufLock = w
         /\ wpc[v] = "job_lock"
    /\ \E c \in Coords(width, height) : writes[c] = 1

\* C12: a thread that is at the computing part of its task does not own the
\* image mutex, and when a thread owns it every colour of its unit has
\* already been computed: the locked statement only copies.
C12_NoLockWhileComputing ==
    \A w \in Workers :
        /\ wpc[w] \in {"job", "job_lock"} => bufLock # w
        /\ bufLock = w =>
             /\ wpc[w] = "job_write"
             /\ \A k \in 1..Len(wunit[w]) :
                  wunit[w][k].pixel =
                      compute_pixel(wunit[w][k].x, wunit[w][k].y, width, height)

C12_Witness ==
    /\ mode = "pixels"
    /\ \E w \in Workers :
         /\ bufLock = w
         /\ wpc[w] = "job_write"
         /\ wunit[w][1].pixel # BLACK
    /\ \E v \in Workers : wpc[v] = "job" /\ runCount # <<>>

Min(a, b) == IF a <= b THEN a ELSE b

\* ceil(a / b) for a >= 0, b > 0.
CeilDiv(a, b) == (a + b - 1) \div b

\* The sizes of chunks filled in order, each to `size` before the next starts,
\* out of `total` pixels: chunk s holds what is left, at most `size`.
FilledInOrder(size, total) ==
    \A s \in 1..Len(units) :
        Len(units[s]) = Min(size, IF total > (s - 1) * size
                                  THEN total - (s - 1) * size ELSE 0)

\* The coordinates of the work units, concatenated in unit order.
RECURSIVE ConcatCoords(_)
ConcatCoords(u) ==
    IF u > Len(units) THEN <<>>
    ELSE [k \in 1..Len(units[u]) |-> <<units[u][k].x, units[u][k].y>>]
             \o ConcatCoords(u + 1)

\* C13 as claimed: divide_image_into_segments returns exactly N contiguous
\* chunks and the chunk size they are filled to is ceil(total_pixels / N).
C13_ChunkSizeIsCeil ==
    (mode = "divide" /\ pcMain = "segments") =>
        /\ Len(units) = threads
        /\ ConcatCoords(1) = enumerate_pixels(width, height)
        /\ FilledInOrder(CeilDiv(width * height, threads), width * height)

\* C14: divide_image_into_segments never panics and returns exactly `threads`
\* segments whose concatenation is the row-major scan of the image, every
\* coordinate once; the segments are filled in order, each to one common size
\* before the next starts; 3x3 into 5 gives the sizes 2, 2, 2, 2, 1.
C14_SegmentsAreRowMajorScan ==
    /\ mode = "divide" => pcMain # "panicked"
    /\ (mode = "divide" /\ pcMain = "segments") =>
        /\ Len(units) = threads
        /\ ConcatCoords(1) = enumerate_pixels(width, height)
        /\ \E size \in 1..(width * height + 1) :
             FilledInOrder(size, width * height)
        /\ (width = 3 /\ height = 3 /\ threads = 5) =>
             [s \in 1..5 |-> Len(units[s])] = <<2, 2, 2, 2, 1>>

C14_Witness ==
    /\ mode = "divide"
    /\ pcMain = "segments"
    /\ width = 3 /\ height = 3 /\ threads = 5
    /\ Len(units[5]) = 1
    /\ <<units[2][2].x, units[2][2].y>> = <<0, 1>>

\* The NewJob messages sent so far, in send order.
JobsSent == SelectSeq(sent, LAMBDA m : m.type = "NewJob")

\* C15: the row strategy creates exactly `height` work units, unit y holding
\* the `width` pixels (0, y) .. (width - 1, y) in increasing x order, and
\* submits each of them as one pool task: task y for unit y, `height` tasks in
\* all once the submitting loop has ended.
C15_OneTaskPerRow ==
    mode = "rows" =>
        /\ pcMain \notin {"start", "panicked"} =>
             /\ Len(units) = height
             /\ \A y \in 1..height :
                  [x \in 1..Len(units[y]) |-> <<units[y][x].x, units[y][x].y>>]
                      = [x \in 1..width |-> <<x - 1, y - 1>>]
        /\ Len(JobsSent) <= height
        /\ \A j \in 1..Len(JobsSent) : JobsSent[j].job = j
        /\ pcMain \notin {"start", "live", "panicked"} => Len(JobsSent) = height

C15_Witness ==
    /\ mode = "rows"
    /\ pcMain = "drop_send"
    /\ width = 2 /\ height = 2
    /\ Len(JobsSent) = 2
    /\ <<units[2][2].x, units[2][2].y>> = <<1, 1>>

\* Thread w acquires / releases the image mutex in this step.
Acquires(w) == bufLock # w /\ bufLock' = w

Releases(w) == bufLock = w /\ bufLock' # w

\* The step writes exactly the pixel at c, once, and no other.
WritesOnly(c) ==
    /\ writes'[c] = writes[c] + 1
    /\ \A o \in Coords(width, height) \ {c} : writes'[o] = writes[o]

\* C16 as claimed: in the segment and row strategies a task acquires the image
\* mutex exactly once: when it releases the mutex its write-back pass is over.
C16_OneLockPerChunk ==
    [][\A w \in Workers :
          (mode \in {"segments", "rows"} /\ Releases(w)) => wpc'[w] = "job_done"]_vars

\* C16 as amended: in the segment and row strategies a task, having computed
\* its whole unit, acquires the image mutex once per pixel_data of the unit:
\* it holds the mutex only at its write statement, each hold writes exactly
\* the one pixel at the task's position, and the task goes on to acquire the
\* mutex again exactly when pixel_data remain.
C16_OneLockPerPixel ==
    /\ [](\A w \in Workers :
            (mode \in {"segments", "rows"} /\ bufLock = w) =>
                wpc[w] = "job_write" /\ wpos[w] \in 1..Len(wunit[w]))
    /\ [][\A w \in Workers : mode \in {"segments", "rows"} =>
            /\ Acquires(w) => wpc[w] = "job_lock" /\ UNCHANGED <<writes, wpos>>
            /\ Releases(w) =>
                 /\ WritesOnly(<<wunit[w][wpos[w]].x, wunit[w][wpos[w]].y>>)
                 /\ wpos'[w] = wpos[w] + 1
                 /\ wpc'[w] = IF wpos[w] < Len(wunit[w])
                               THEN "job_lock" ELSE "job_done"
          ]_vars

C16_Witness ==
    /\ mode = "segments"
    /\ \E w \in Workers :
         /\ wpc[w] = "job_write"
         /\ bufLock = w
         /\ wpos[w] = 2
         /\ writes[<<wunit[w][1].x, wunit[w][1].y>>] = 1

\* The pixel tasks submitted so far whose closure captured coordinate c.
TasksFor(c) ==
    {j \in 1..Len(JobsSent) : <<units[j][1].x, units[j][1].y>> = c}

\* C17: the pixel strategy submits one task per pixel coordinate, width*height
\* in all once its loop has ended; a task holds the image mutex only at its
\* write statement, and the one hold of a task writes exactly the task's own
\* pixel and ends the task.
C17_OneTaskAndOneLockPerPixel ==
    /\ [](mode = "pixels" =>
            /\ Len(units) = Len(JobsSent)
            /\ \A j \in 1..Len(units) : Len(units[j]) = 1
            /\ \A c \in Coords(width, height) : Cardinality(TasksFor(c)) <= 1
            /\ pcMain \notin {"start", "live", "submit", "panicked"} =>
                 /\ Len(JobsSent) = width * height
                 /\ \A c \in Coords(width, height) : Cardinality(TasksFor(c)) = 1
            /\ \A w \in Workers : bufLock = w => wpc[w] = "job_write")
    /\ [][\A w \in Workers : mode = "pixels" =>
            /\ Acquires(w) => wpc[w] = "job_lock" /\ wpos[w] = 1
            /\ Releases(w) =>
                 /\ WritesOnly(<<units[wmsg[w].job][1].x, units[wmsg[w].job][1].y>>)
                 /\ wpc'[w] = "job_done"
          ]_vars

C17_Witness ==
    /\ mode = "pixels"
    /\ width = 2 /\ height = 2
    /\ pcMain = "drop_join"
    /\ Len(JobsSent) = 4
    /\ \E w \in Workers :
         /\ wpc[w] = "job_done"
         /\ wmsg[w].job = 3
         /\ writes[<<0, 1>>] = 1

\* iterations_to_color has been called and has returned or panicked.
ColorCalled == mode = "color" /\ pcMain \in {"mapped", "panicked"}

\* C18: for every limit L and every palette of at least 2 colours,
\* iterations_to_color(L, L, palette) returns black, whatever the palette holds.
C18_LimitMapsToBlack ==
    (ColorCalled /\ argIterations = argLimit /\ Len(argPalette) >= 2) =>
        /\ pcMain = "mapped"
        /\ color = <<0, 0, 0>>

C18_Witness ==
    /\ ColorCalled
    /\ argIterations = 4 /\ argLimit = 4
    /\ argPalette = <<RED, GREEN, BLUE>>
    /\ color = <<0, 0, 0>>

\* w = round(L / (k - 1)) for the call's limit and palette.
CallWidth == Round(argLimit, Len(argPalette) - 1)

\* C19 as claimed: for every j in 0..k-1 with j*w < L, the call with
\* iterations = j*w returns palette[j] (sequences here start at 1).
C19_BoundariesArePure ==
    ColorCalled =>
        \A j \in 0..(Len(argPalette) - 1) :
            (j * CallWidth < argLimit /\ argIterations = j * CallWidth) =>
                color = argPalette[j + 1]

\* C19 where it does hold: if w >= 1, for every j in 0..k-1 with j*w < L the
\* call with iterations = j*w returns palette[j], an exact positive multiple of
\* w taking the end colour of the lower subrange; if w = 0 every boundary is
\* iterations = 0, and the call returns palette[0] for it.
C19_BoundariesArePureForPositiveWidth ==
    ColorCalled =>
        /\ CallWidth >= 1 =>
             \A j \in 0..(Len(argPalette) - 1) :
                 (j * CallWidth < argLimit /\ argIterations = j * CallWidth) =>
                     /\ color = argPalette[j + 1]
                     /\ j >= 1 => subrange = j - 1
        /\ (CallWidth = 0 /\ argIterations = 0) => color = argPalette[1]

C19_Witness ==
    /\ ColorCalled
    /\ argIterations = 4 /\ argLimit = 6
    /\ argPalette = <<RED, GREEN, BLUE, GREEN>>
    /\ subrange = 1
    /\ color = BLUE

\* C20 as claimed: for 0 <= n < L the chosen subrange is
\* min(floor(n / w), k - 2) (stated where w >= 1, so that n / w exists).
C20_SubrangeIsFloor ==
    (ColorCalled /\ argIterations < argLimit /\ CallWidth >= 1) =>
        subrange = Min(argIterations \div CallWidth, Len(argPalette) - 2)

\* The subranges 0..k-2 whose upper boundary (s+1)*w is not below n.
SubrangesReaching(n) ==
    {s \in 0..(Len(argPalette) - 2) : n <= (s + 1) * CallWidth}

\* C20 as amended: for 0 <= n < L the chosen subrange is the least s with
\* n <= (s+1)*w, and k-2 when there is none: min(ceil(n / w) - 1, k - 2) for
\* n >= 1 and w >= 1, 0 for n = 0.  An exact multiple j*w lies in subrange j-1.
C20_SubrangeIsLeastReaching ==
    (ColorCalled /\ argIterations < argLimit) =>
        /\ subrange = IF SubrangesReaching(argIterations) = {}
                      THEN Len(argPalette) - 2
                      ELSE CHOOSE s \in SubrangesReaching(argIterations) :
                               \A t \in SubrangesReaching(argIterations) : s <= t
        /\ (argIterations >= 1 /\ CallWidth >= 1) =>
             subrange = Min(CeilDiv(argIterations, CallWidth) - 1,
                            Len(argPalette) - 2)
        /\ argIterations = 0 => subrange = 0

C20_Witness ==
    /\ ColorCalled
    /\ argIterations = 2 /\ argLimit = 6
    /\ Len(argPalette) = 4
    /\ subrange = 0
    /\ color = argPalette[2]

\* C21: for every 0 <= n < L and palette of k >= 2 colours the chosen subrange
\* is in 0..k-2, so palette[start_color] and palette[start_color + 1] are both
\* in bounds, also where rounding of the width makes n exceed w*(k-1).
C21_SubrangeInBounds ==
    (ColorCalled /\ argIterations < argLimit /\ Len(argPalette) >= 2) =>
        /\ subrange \in 0..(Len(argPalette) - 2)
        /\ index_in_bounds(argPalette, subrange)
        /\ index_in_bounds(argPalette, subrange + 1)

C21_Witness ==
    /\ ColorCalled
    /\ pcMain = "mapped"
    /\ argLimit = 7 /\ argIterations = 6
    /\ Len(argPalette) = 6
    /\ argIterations > CallWidth * (Len(argPalette) - 1)
    /\ subrange = 4

\* |a - b| * degree lies exactly halfway between two integers.
BlendHalfway ==
    /\ argA # argB
    /\ argDegree.n \notin {0, argDegree.d}
    /\ (2 * Abs(argA - argB) * argDegree.n) % (2 * argDegree.d) = argDegree.d

\* Both directions have been blended.
BlendCalled == mode = "blend" /\ pcMain = "blended_back"

\* C22 as claimed: for all channels a, b and every degree f in [0, 1],
\* blend_color_channel(a, b, f) = blend_color_channel(b, a, 1 - f).
C22_BlendIsSymmetric == BlendCalled => blended = blendedBack

\* C22 as amended: the two blends differ by at most 1; they differ exactly when
\* |a - b| * f is halfway between two integers (f = 0.5 with an odd difference),
\* and then the blend that starts from the larger channel is the smaller one.
C22_BlendIsSymmetricUpToOne ==
    BlendCalled =>
        /\ Abs(blended - blendedBack) <= 1
        /\ (blended # blendedBack) <=> BlendHalfway
        /\ (BlendHalfway /\ argA > argB) => blended = blendedBack - 1
        /\ (BlendHalfway /\ argA < argB) => blended = blendedBack + 1

C22_Witness ==
    /\ BlendCalled
    /\ argA = 255 /\ argB = 0
    /\ argDegree = Frac(1, 2)
    /\ blended = 127
    /\ blendedBack = 128

\* The gradient position of iteration count n in the call's limit and palette:
\* chosen subrange + coverage within it, as a fraction (d = 0: NaN).
GradientPosition(n) ==
    LET cover == subrange_cover(n, CallWidth)
    IN  Frac(chosen_subrange(n, argLimit, argPalette) * cover.d + cover.n, cover.d)

\* The call for n gets as far as blending, and with a coverage that is a number.
GradientDefined(n) ==
    /\ ~remainder_by_zero(n, CallWidth)
    /\ ~IsNaN(GradientPosition(n))

\* Position b is not before position a, and at most 1/w after it.
GradientStep(a, b) ==
    /\ a.n * b.d <= b.n * a.d
    /\ (b.n * a.d - a.n * b.d) * CallWidth <= a.d * b.d

\* C23 as claimed: for every L, palette of k >= 2 colours and n with n + 1 < L,
\* the gradient position of n + 1 is not less than that of n and exceeds it by
\* at most 1/w.
C23_GradientNeverSnapsBack ==
    (ColorCalled /\ argIterations + 1 < argLimit) =>
        /\ pcMain = "mapped"
        /\ GradientDefined(argIterations)
        /\ GradientDefined(argIterations + 1)
        /\ GradientPosition(argIterations).n =
               subrange * subrange_cover(argIterations, CallWidth).d
                   + subrange_cover(argIterations, CallWidth).n
        /\ GradientStep(GradientPosition(argIterations),
                        GradientPosition(argIterations + 1))

\* C23 where it does hold: while n + 1 <= w*(k-1) and w >= 1 the position of
\* every count m is m / w, so a step adds exactly 1/w.
C23_GradientWithinTheSubranges ==
    (ColorCalled /\ argIterations + 1 < argLimit /\ CallWidth >= 1
                /\ argIterations + 1 <= CallWidth * (Len(argPalette) - 1)) =>
        /\ pcMain = "mapped"
        /\ GradientDefined(argIterations)
        /\ GradientDefined(argIterations + 1)
        /\ GradientStep(GradientPosition(argIterations),
                        GradientPosition(argIterations + 1))
        /\ GradientPosition(argIterations).n * CallWidth =
               argIterations * GradientPosition(argIterations).d

\* The backward snap past the last boundary: limit 12 and 6 colours give
\* w = 2; count 10 is the pure last colour, count 11 is halfway back.
C23_SnapBack ==
    /\ ColorCalled
    /\ argLimit = 12 /\ Len(argPalette) = 6 /\ argIterations = 10
    /\ CallWidth = 2
    /\ GradientPosition(10) = Frac(5, 1)
    /\ GradientPosition(11) = Frac(9, 2)
    /\ color = argPalette[6]
    /\ iterations_to_color(11, argLimit, argPalette)
           = blend_colors(argPalette[5], argPalette[6], Frac(1, 2))

\* C24 as claimed: a palette of fewer than 2 colours is rejected when it is
\* constructed, never as late as the call of the colour mapper.
C24_RejectedAtConstruction ==
    (mode = "palette" /\ Len(argPalette) < 2) =>
        /\ pcMain # "constructed"
        /\ ~(pcMain = "panicked" /\ color = Panic)

\* C24 as amended: constructing a palette of fewer than 2 colours succeeds; it
\* is rejected when the colour mapper is called with it, by the assertion at
\* the entry of iterations_to_color, whatever iterations and limit are.
C24_RejectedAtCall ==
    mode = "palette" =>
        /\ pcMain \in {"start", "constructed", "mapped", "panicked"}
        /\ pcMain \in {"start", "constructed"} => color = <<>>
        /\ (pcMain \in {"mapped", "panicked"} /\ Len(argPalette) < 2) =>
              pcMain = "panicked" /\ color = Panic
        /\ pcMain = "mapped" => (Len(argPalette) >= 2 /\ color # Panic)

C24_Witness ==
    /\ mode = "palette"
    /\ pcMain = "panicked"
    /\ argPalette = <<RED>>
    /\ argIterations = argLimit
    /\ color = Panic

\* C25 as claimed: a render called with limit = 0 is stopped at its entry: no
\* pixel is computed or written, and the render does not return normally.
C25_ZeroLimitIsFatal ==
    (mode \in {"segments", "rows", "pixels"} /\ limitArg = 0) =>
        /\ \A c \in Coords(width, height) : writes[c] = 0
        /\ \A w \in Workers : wpc[w] \notin {"job_lock", "job_write", "job_done"}
        /\ ~RenderOver

\* C25 as amended: a render called with limit = 0 is not stopped: it never
\* panics, and when it returns every pixel has been computed (the escape loop
\* runs zero times, so the count equals the limit) and written once, as black.
C25_ZeroLimitRendersBlack ==
    (mode \in {"segments", "rows", "pixels"} /\ limitArg = 0) =>
        /\ pcMain # "panicked"
        /\ \A c \in Coords(width, height) :
               /\ compute_pixel(c[1], c[2], width, height) = BLACK
               /\ writes[c] = 1 => pixels[c] = BLACK
               /\ RenderOver => writes[c] = 1

C25_Witness ==
    /\ mode = "rows"
    /\ limitArg = 0
    /\ width = 2 /\ height = 1
    /\ pcMain = "saved"
    /\ \A c \in Coords(width, height) : writes[c] = 1 /\ saved[c] = BLACK

\* z after iteration i (0-based) of z <- z*z + c from z = 0.
RECURSIVE Orbit(_, _)
Orbit(c, i) ==
    IF i = 0 THEN square_add(<<0, 0>>, c) ELSE square_add(Orbit(c, i - 1), c)

EscapeCalled == mode = "escape" /\ pcMain = "escaped"

C26_WitnessEscape ==
    /\ EscapeCalled
    /\ argC = <<1, 0>>
    /\ argEscapeLimit = 4
    /\ escaped = 2

MapperCalled == mode = "mapper" /\ pcMain = "mapped_both"

C27_WitnessReversed ==
    /\ MapperCalled
    /\ argUpperLeft[1] > argLowerRight[1]
    /\ argPixel[1] < argOther[1]
    /\ point[1] > pointOther[1]

\* Workers of the pool that have not received their Terminate yet.
Unterminated == {w \in PoolWorkers : termRecv[w] = 0}

\* C28: teardown is two-phase: all N Terminate messages are enqueued before
\* the first join starts, so whichever workers consume them, the worker being
\* joined still finds one in the channel if it has not received its own.
C28_TwoPhaseTeardown ==
    /\ pcMain = "drop_send" => joinIdx = 0
    /\ (pcMain = "drop_join" \/ joinIdx > 0) =>
          /\ termSent = poolSize
          /\ TerminatesIn(queue) = Cardinality(Unterminated)
          /\ \A w \in PoolWorkers :
                (w = joinIdx + 1 /\ termRecv[w] = 0) => TerminatesIn(queue) >= 1

C28_Witness ==
    /\ pcMain = "drop_join"
    /\ poolSize = 2
    /\ joinIdx = 0
    /\ termRecv[2] = 1 /\ wpc[2] = "exited"
    /\ termRecv[1] = 0 /\ wpc[1] = "job"
    /\ TerminatesIn(queue) = 1

\* The workers that are executing a task.
Running == {w \in Workers : wpc[w] \in {"job", "job_lock", "job_write", "job_done"}}

\* C29: a worker holds the receiver lock only from taking it to the end of the
\* statement that dequeues one message: never while it matches or runs the
\* task.  So while a task runs, an idle worker can take the lock whenever no
\* other dequeuing worker has it, and can dequeue once it has it; as many
\* tasks as there are workers can be running at once, never more.
C29_ReceiverLockOnlyWhileDequeuing ==
    /\ \A w \in Workers : receiverLock = w <=> wpc[w] = "recv"
    /\ \A w \in Running : receiverLock # w
    /\ \A w \in Running : \A v \in Workers :
          /\ (wpc[v] = "loop" /\ receiverLock = 0) => ENABLED WorkerLock(v)
          /\ (wpc[v] = "recv" /\ queue # <<>>) => ENABLED WorkerRecv(v)
    /\ Cardinality(Running) <= poolSize

C29_Witness ==
    /\ poolSize = 2
    /\ wpc[1] = "job" /\ wpc[2] = "job"
    /\ wmsg[1].job # wmsg[2].job
    /\ receiverLock = 0

\* One worker dequeues while the other one's task is still running.
C29_WitnessDequeueDuringTask ==
    /\ wpc[1] = "job"
    /\ wpc[2] = "recv" /\ receiverLock = 2
    /\ queue # <<>>

\* What holds in every state of the pixel render: during the enqueue loop the
\* rendering thread owns the buffer lock and nothing has been written; it no
\* longer owns it once teardown has begun; and no worker is still waiting for
\* the lock when the image is saved.
C30_PixelsLockDiscipline ==
    mode = "pixels" =>
        /\ pcMain = "submit" =>
              /\ bufLock = MainThread
              /\ \A c \in Coords(width, height) : writes[c] = 0
        /\ pcMain \in {"drop_send", "drop_join", "dropped", "returned", "saved"} =>
              bufLock # MainThread
        /\ pcMain = "saved" => \A w \in Workers : wpc[w] # "job_lock"

\* A worker stops waiting for the buffer lock only by acquiring it.
C30_WaitEndsByAcquiring ==
    \A w \in Workers :
        (wpc[w] = "job_lock" /\ wpc'[w] # "job_lock") => bufLock' = w

\* C30: the pixel render is deadlock-free and terminates for every image and
\* thread count: the lock discipline above holds throughout, under a fair
\* scheduler the render returns and the image is saved (so no state is reached
\* in which every thread waits for another), and every worker waiting for the
\* buffer lock gets it: it is not waiting any more when the image is saved,
\* and the only way out of the wait is to own the lock.
C30_PixelsRenderTerminates ==
    /\ []C30_PixelsLockDiscipline
    /\ [][C30_WaitEndsByAcquiring]_vars
    /\ <>(pcMain = "saved")

\* A worker waits for the buffer lock that the rendering thread still holds in
\* its enqueue loop.
C30_Witness ==
    /\ mode = "pixels"
    /\ pcMain = "submit"
    /\ bufLock = MainThread
    /\ wpc[1] = "job_lock"
    /\ Len(units) < width * height

\* C31: in divide_image_into_segments the current-segment index is below
\* `threads` at every push, whatever the image (empty ones included) and the
\* thread count: the call never indexes past the last segment, every pixel of
\* the image is pushed onto one of the `threads` segments, and no segment
\* holds more than total_pixels / threads + 1 pixels, which all together have
\* room for more than total_pixels.
C31_SegmentIndexBelowThreads ==
    (mode = "divide" /\ pcMain \in {"segments", "panicked"}) =>
        /\ pcMain = "segments"
        /\ DOMAIN units = 1..threads
        /\ Len(ConcatCoords(1)) = width * height
        /\ \A s \in 1..threads :
              Len(units[s]) <= (width * height) \div threads + 1
        /\ threads * ((width * height) \div threads + 1) > width * height

\* More pixels than threads, divisible: the last segment stays empty.
C31_Witness ==
    /\ mode = "divide"
    /\ pcMain = "segments"
    /\ threads > 1
    /\ width * height >= threads
    /\ (width * height) % threads = 0
    /\ units[threads] = <<>>
    /\ units[threads - 1] # <<>>

\* An image without pixels: nothing is pushed and every segment is empty.
C31_WitnessEmptyImage ==
    /\ mode = "divide"
    /\ pcMain = "segments"
    /\ width * height = 0
    /\ threads > 1
    /\ \A s \in 1..threads : units[s] = <<>>

\* C32 as claimed: for every limit L >= 1, palette of k >= 2 colours and count
\* 0 <= n <= L, iterations_to_color returns a colour and does not panic, and
\* whenever the subrange width round(L / (k - 1)) is used as a modulus or as a
\* divisor (that is, for every n other than the sentinel L) it is at least 1.
C32_WidthIsPositiveWhereUsed ==
    (ColorCalled /\ argLimit >= 1 /\ Len(argPalette) >= 2) =>
        /\ pcMain = "mapped"
        /\ color # Panic
        /\ ~is_limit(argIterations, argLimit) =>
              /\ subrange_width_of(argLimit, argPalette) >= 1
              /\ ~remainder_by_zero(argIterations,
                                    subrange_width_of(argLimit, argPalette))

\* The call whose remainder has a zero divisor: limit 2, six colours, count 1.
C32_RemainderByZero ==
    /\ ColorCalled
    /\ argLimit = 2 /\ Len(argPalette) = 6 /\ argIterations = 1
    /\ subrange_width_of(argLimit, argPalette) = 0
    /\ pcMain = "panicked"
    /\ color = Panic

\* The call that divides 0.0 by a zero width: limit 1, four colours, count 0.
C32_ZeroByZero ==
    /\ ColorCalled
    /\ argLimit = 1 /\ Len(argPalette) = 4 /\ argIterations = 0
    /\ subrange_width_of(argLimit, argPalette) = 0
    /\ pcMain = "mapped"
    /\ color = argPalette[1]

\* The coverage the call hands to blend_colors, and the two colours blended.
CallCover == subrange_cover(argIterations, subrange_width_of(argLimit, argPalette))

CallStartColor == argPalette[subrange + 1]

CallNextColor == argPalette[subrange + 2]

\* c lies between a and b inclusive, whichever is larger.
Between(a, c, b) == (a <= c /\ c <= b) \/ (b <= c /\ c <= a)

\* The coverage is a number in [0, 1], the returned colour lies channel by
\* channel between the two blended colours, and coverage 0 and 1 return the
\* start and the end colour exactly.
CoverageAndBlendInRange ==
    /\ ~IsNaN(CallCover)
    /\ 0 <= CallCover.n
    /\ CallCover.n <= CallCover.d
    /\ \A ch \in 1..3 : Between(CallStartColor[ch], color[ch], CallNextColor[ch])
    /\ CallCover.n = 0 => color = CallStartColor
    /\ CallCover.n = CallCover.d => color = CallNextColor

\* C33 as claimed: for every count 0 <= n < L that reaches the blend, the
\* coverage passed to it is within [0, 1] and every blended channel lies
\* between the two endpoint channels inclusive (so the u8 additions and
\* subtractions of blend_color_channel neither overflow nor underflow);
\* coverage 0 returns the start channel and coverage 1 the end channel.
C33_CoverageAndBlendInRange ==
    (ColorCalled /\ argIterations < argLimit /\ pcMain = "mapped") =>
        CoverageAndBlendInRange

\* C33 where it does hold: whenever the subrange width is at least 1.
C33_CoverageAndBlendInRangeForPositiveWidth ==
    (ColorCalled /\ argIterations < argLimit /\ CallWidth >= 1) =>
        /\ pcMain = "mapped"
        /\ CoverageAndBlendInRange

\* A coverage strictly inside (0, 1) blending two different colours.
C33_WitnessInside ==
    /\ ColorCalled
    /\ argLimit = 8 /\ argIterations = 5
    /\ argPalette = <<RED, GREEN, BLUE>>
    /\ CallCover = Frac(1, 4)
    /\ color = <<0, 191, 64>>

\* The coverage that is not a number: 0.0 / 0.0 at a zero width.
C33_WitnessNaN ==
    /\ ColorCalled
    /\ argLimit = 1 /\ argIterations = 0 /\ Len(argPalette) = 4
    /\ pcMain = "mapped"
    /\ IsNaN(CallCover)

\* blend_color_channel alone: for every degree in [0, 1] the result lies
\* between the two channels, degree 0 returns a_channel and degree 1 b_channel.
C33_BlendStaysBetweenEndpoints ==
    (mode = "blend" /\ pcMain \in {"blended", "blended_back"}) =>
        /\ Between(argA, blended, argB)
        /\ blended \in 0..255
        /\ argDegree.n = 0 => blended = argA
        /\ argDegree.n = argDegree.d => blended = argB

====
